---- MODULE Spec2Model ----
(***************************************************************************)
(* KlingExWebSocket (src/unnamed/part_001): the streaming client's          *)
(* connection manager, subscription registry and message router, as a      *)
(* state machine.  The transport (the platform WebSocket) is the            *)
(* environment: every handle the client creates lives on after the client   *)
(* drops its reference, and its open / error / close / message events call  *)
(* the handlers that connect() attached to it.                              *)
(***************************************************************************)
EXTENDS Integers, Sequences, FiniteSets, TLC

\* ------------------------------------------------------------------ bounds
MaxHandles == 3            \* transport handles created in a run of Spec
SubHandles == 1            \* transport handles created in a run of SpecSubs
AutoHandles == 2           \* transport handles created in a run of SpecAuto
AutoSubs == 1              \* subscribe() calls in a run of SpecAuto
MaxSubs == 2               \* subscribe() calls in a run of SpecSubs
MaxReconnectAttempts == 2  \* largest options.maxReconnectAttempts a caller picks

\* ------------------------------------------------------- program constants
ReconnectInterval == 5000  \* options.reconnectInterval (default)

Handles == 1..MaxHandles
NoHandle == 0
Undefined == "undefined"
Symbols == {"BTC-USDT", "ETH-USDT"}

\* The public subscription methods, as (channel, symbol) pairs handed to
\* subscribe(): orderbook(symbol, handler) and userOrders(handler).
SubscribeCalls ==
  {<<"orderbook", s>> : s \in Symbols} \cup {<<"user.orders", Undefined>>}

\* Inbound frames: the text JSON.parse is given.  A data frame is the envelope
\* {channel, event, data, timestamp}; its data object either has a symbol
\* field or has none.
Payloads ==
  {[symbol |-> s, price |-> "50000"] : s \in Symbols} \cup {[price |-> "50000"]}
DataFrames ==
  {[kind |-> "data", channel |-> c, event |-> "update", data |-> d,
    timestamp |-> "t"] : c \in {"orderbook", "user.orders"}, d \in Payloads}
Frames == DataFrames \cup {[kind |-> "pong"], [kind |-> "malformed"]}

VARIABLES
  ws,                \* this.ws: the current handle, NoHandle for null
  phase,             \* per handle: where the transport is in its life
  promise,           \* per handle: the promise of the connect() that made it
  byTimer,           \* per handle: made by the reconnect timer's connect()
  isConnecting,      \* this.isConnecting
  reconnect,         \* this.options.reconnect
  maxReconnectAttempts, \* this.options.maxReconnectAttempts
  reconnectAttempts, \* this.reconnectAttempts
  reconnectTimeout,  \* this.reconnectTimeout: a timer id, 0 for null
  pendingTimers,     \* setTimeout timers that have not fired or been cleared
  delay,             \* the delay of the most recently scheduled timer
  pingInterval,      \* this.pingInterval: an interval id, 0 for null
  runningIntervals,  \* setInterval timers that have not been cleared
  subscriptions,     \* this.subscriptions, in insertion order
  errorHandler,      \* this.errorHandler is set
  closures,          \* the unsubscribe closures handed out, by subscribe() call
  disconnected,      \* history: disconnect() has been called
  unsubscribed,      \* history: closures that have been invoked
  maxReports,        \* history: exhausted-retries errors reported since the
                     \* caller last called connect() or a transport opened
  last               \* what the last step was and what it emitted

vars == <<ws, phase, promise, byTimer, isConnecting, reconnect,
          maxReconnectAttempts, maxReports, reconnectAttempts, reconnectTimeout, pendingTimers, delay,
          pingInterval, runningIntervals, subscriptions, errorHandler,
          closures, disconnected, unsubscribed, last>>

connVars == <<ws, phase, promise, byTimer, isConnecting>>
timerVars == <<reconnectAttempts, reconnectTimeout, pendingTimers, delay>>
pingVars == <<pingInterval, runningIntervals>>
subVars == <<subscriptions, closures, unsubscribed>>
optVars == <<reconnect, maxReconnectAttempts>>

\* ---------------------------------------------------------------- helpers

\* WebSocket.readyState of a handle in a given phase.
ReadyStateOf(p) ==
  CASE p = "connecting" -> "CONNECTING"
    [] p = "open" -> "OPEN"
    [] p \in {"closing", "closingC"} -> "CLOSING"
    [] p \in {"errored", "closed"} -> "CLOSED"
    [] OTHER -> "NONE"

\* this.ws?.readyState, for a client whose ws is w and whose handles are in ph.
ReadyState(w, ph) == IF w = NoHandle THEN "NONE" ELSE ReadyStateOf(ph[w])

\* The handle the next new WebSocket(...) returns.
NextHandle == Cardinality({h \in Handles : phase[h] # "unused"}) + 1

\* this.errorHandler?.(err)
Report(err) == IF errorHandler THEN <<err>> ELSE <<>>

NoOutput(op) ==
  [op |-> op, h |-> NoHandle, clean |-> FALSE, created |-> NoHandle, arg |-> 0,
   sent |-> <<>>, calls |-> <<>>, threw |-> FALSE, errs |-> <<>>]

\* ---------------------------------------------------- subscription registry

\* const key = symbol ? `${channel}:${symbol}` : channel
Key(channel, symbol) ==
  IF symbol # Undefined THEN channel \o ":" \o symbol ELSE channel

MapHas(m, k) == \E i \in 1..Len(m) : m[i].key = k

MapGet(m, k) == m[CHOOSE i \in 1..Len(m) : m[i].key = k]

\* Mutant of MapSet: the value is appended even if the key is present.
MapSetAppends(m, k, v) == Append(m, v)

\* Map.prototype.set: an existing key keeps its position.
MapSet(m, k, v) ==
  IF MapHas(m, k)
    THEN [i \in 1..Len(m) |-> IF m[i].key = k THEN v ELSE m[i]]
    ELSE Append(m, v)

\* Mutant of MapDelete: the entry is left in the map.
MapDeleteKeeps(m, k) == m

MapDelete(m, k) == SelectSeq(m, LAMBDA e : e.key # k)

SubscribeMsg(channel, symbol) ==
  [action |-> "subscribe", channel |-> channel, symbol |-> symbol]

UnsubscribeMsg(channel, symbol) ==
  [action |-> "unsubscribe", channel |-> channel, symbol |-> symbol]

PingMsg == [type |-> "ping"]

\* Mutant of Send: readyState is not consulted.
SendUnchecked(w, ph, data) == <<[to |-> w, data |-> data]>>

\* send(data): written to this.ws only if it is OPEN.
Send(w, ph, data) ==
  IF ReadyState(w, ph) = "OPEN" THEN <<[to |-> w, data |-> data]>> ELSE <<>>

RECURSIVE ResubscribeFrom(_, _, _, _)
ResubscribeFrom(m, i, w, ph) ==
  IF i > Len(m) THEN <<>>
  ELSE Send(w, ph, SubscribeMsg(m[i].channel, m[i].symbol))
         \o ResubscribeFrom(m, i + 1, w, ph)

\* Mutant of ResubscribeAll: the loop starts one entry late.
ResubscribeAllSkipsFirst(m, w, ph) == ResubscribeFrom(m, 2, w, ph)

\* resubscribeAll(): one sendSubscribe per registry entry.
ResubscribeAll(m, w, ph) == ResubscribeFrom(m, 1, w, ph)

\* ------------------------------------------------------------------ timers

RECURSIVE Pow(_, _)
Pow(b, e) == IF e = 0 THEN 1 ELSE b * Pow(b, e - 1)

\* Mutant of Delay: the exponent is attempts, not attempts - 1.
DelayOffByOne(attempts) ==
  <<ReconnectInterval * Pow(3, attempts), Pow(2, attempts)>>

\* reconnectInterval * Math.pow(1.5, attempts - 1), as the exact fraction
\* <<numerator, denominator>> (the double is exact for these exponents).
Delay(attempts) ==
  <<ReconnectInterval * Pow(3, attempts - 1), Pow(2, attempts - 1)>>

RatLess(a, b) == a[1] * b[2] < b[1] * a[2]

\* stopPingInterval(): the intervals still running afterwards.
StopPingInterval ==
  IF pingInterval # 0 THEN runningIntervals \ {pingInterval} ELSE runningIntervals

\* Mutant of ScheduleReconnect: the attempt counter is not incremented.
ScheduleReconnectNoCount(t) ==
  IF reconnectAttempts >= maxReconnectAttempts
    THEN [attempts |-> reconnectAttempts, timeout |-> reconnectTimeout,
          pending |-> pendingTimers, delay |-> delay,
          errs |-> IF errorHandler
                     THEN <<"Max reconnection attempts reached">> ELSE <<>>]
    ELSE [attempts |-> reconnectAttempts, timeout |-> t,
          pending |-> pendingTimers \cup {t},
          delay |-> <<ReconnectInterval, 1>>, errs |-> <<>>]

\* scheduleReconnect(), called from the close handler of handle t; the timer
\* it creates is named after that handle.
ScheduleReconnect(t) ==
  IF reconnectAttempts >= maxReconnectAttempts
    THEN [attempts |-> reconnectAttempts, timeout |-> reconnectTimeout,
          pending |-> pendingTimers, delay |-> delay,
          errs |-> Report("Max reconnection attempts reached")]
    ELSE [attempts |-> reconnectAttempts + 1, timeout |-> t,
          pending |-> pendingTimers \cup {t},
          delay |-> Delay(reconnectAttempts + 1), errs |-> <<>>]

\* ----------------------------------------------------------------- connect

\* if (this.ws?.readyState === WebSocket.OPEN || this.isConnecting) return;
ConnectIsNoop == ReadyState(ws, phase) = "OPEN" \/ isConnecting

\* The body of connect(), called by the caller or by the reconnect timer.
DoConnect(timer, maxHandles) ==
  IF ConnectIsNoop
    THEN UNCHANGED connVars
    ELSE /\ NextHandle <= maxHandles
         /\ isConnecting' = TRUE
         /\ ws' = NextHandle
         /\ phase' = [phase EXCEPT ![NextHandle] = "connecting"]
         /\ promise' = [promise EXCEPT ![NextHandle] = "pending"]
         /\ byTimer' = [byTimer EXCEPT ![NextHandle] = timer]

\* Mutant of Connect: a manual connect() turns reconnection back on.
ConnectReenables(maxHandles) ==
  /\ DoConnect(FALSE, maxHandles)
  /\ last' = [NoOutput("connect") EXCEPT !.created = IF ConnectIsNoop THEN NoHandle ELSE NextHandle]
  /\ maxReports' = 0
  /\ reconnect' = TRUE
  /\ UNCHANGED <<maxReconnectAttempts, timerVars, pingVars, subVars,
                 errorHandler, disconnected>>

Connect(maxHandles) ==
  /\ DoConnect(FALSE, maxHandles)
  /\ last' = [NoOutput("connect") EXCEPT !.created = IF ConnectIsNoop THEN NoHandle ELSE NextHandle]
  /\ maxReports' = 0
  /\ UNCHANGED <<optVars, timerVars, pingVars, subVars, errorHandler, disconnected>>

\* The setTimeout callback of scheduleReconnect.
TimerFire(t, maxHandles) ==
  /\ t \in pendingTimers
  /\ pendingTimers' = pendingTimers \ {t}
  /\ DoConnect(TRUE, maxHandles)
  /\ last' = [NoOutput("timer") EXCEPT !.h = t,
                !.created = IF ConnectIsNoop THEN NoHandle ELSE NextHandle]
  /\ UNCHANGED <<optVars, reconnectAttempts, reconnectTimeout, delay, pingVars,
                 subVars, errorHandler, disconnected, maxReports>>

\* ws.onopen
HandleOpen(h) ==
  /\ phase[h] = "connecting"
  /\ phase' = [phase EXCEPT ![h] = "open"]
  /\ isConnecting' = FALSE
  /\ reconnectAttempts' = 0
  /\ pingInterval' = h
  /\ runningIntervals' = runningIntervals \cup {h}
  /\ promise' = [promise EXCEPT ![h] = "resolved"]
  /\ last' = [NoOutput("open") EXCEPT !.h = h,
                !.sent = ResubscribeAll(subscriptions, ws, phase')]
  /\ maxReports' = 0
  /\ UNCHANGED <<ws, byTimer, optVars, reconnectTimeout, pendingTimers, delay,
                 subVars, errorHandler, disconnected>>

\* Mutant of HandleError: the error event schedules a reconnection too.
HandleErrorSchedules(h) ==
  /\ phase[h] \in {"connecting", "open", "closingC"}
  /\ phase' = [phase EXCEPT ![h] = "errored"]
  /\ isConnecting' = FALSE
  /\ promise' = [promise EXCEPT ![h] = IF @ = "pending" THEN "rejected" ELSE @]
  /\ LET r == ScheduleReconnect(h) IN
       /\ reconnectAttempts' = r.attempts
       /\ reconnectTimeout' = r.timeout
       /\ pendingTimers' = r.pending
       /\ delay' = r.delay
  /\ last' = [NoOutput("error") EXCEPT !.h = h,
                !.errs = Report("WebSocket error")
                           \o (IF promise[h] = "pending" /\ byTimer[h]
                                 THEN Report("WebSocket error") ELSE <<>>)]
  /\ UNCHANGED <<ws, byTimer, optVars, pingVars, subVars,
                 errorHandler, disconnected, maxReports>>

\* Mutant of HandleError: reject(err) settles the promise even after
\* resolve().
HandleErrorRejectsAlways(h) ==
  /\ phase[h] \in {"connecting", "open", "closingC"}
  /\ phase' = [phase EXCEPT ![h] = "errored"]
  /\ isConnecting' = FALSE
  /\ promise' = [promise EXCEPT ![h] = "rejected"]
  /\ last' = [NoOutput("error") EXCEPT !.h = h,
                !.errs = Report("WebSocket error")
                           \o (IF promise[h] = "pending" /\ byTimer[h]
                                 THEN Report("WebSocket error") ELSE <<>>)]
  /\ UNCHANGED <<ws, byTimer, optVars, timerVars, pingVars, subVars,
                 errorHandler, disconnected, maxReports>>

\* ws.onerror, and the rejection it hands to the reconnect timer's catch.
HandleError(h) ==
  /\ phase[h] \in {"connecting", "open", "closingC"}
  /\ phase' = [phase EXCEPT ![h] = "errored"]
  /\ isConnecting' = FALSE
  /\ promise' = [promise EXCEPT ![h] = IF @ = "pending" THEN "rejected" ELSE @]
  /\ last' = [NoOutput("error") EXCEPT !.h = h,
                !.errs = Report("WebSocket error")
                           \o (IF promise[h] = "pending" /\ byTimer[h]
                                 THEN Report("WebSocket error") ELSE <<>>)]
  /\ UNCHANGED <<ws, byTimer, optVars, timerVars, pingVars, subVars,
                 errorHandler, disconnected, maxReports>>

\* Mutant of ShouldReconnect: options.reconnect is not consulted.
ShouldReconnectIgnoresFlag(wasClean) == ~wasClean

\* if (this.options.reconnect && !event.wasClean)
ShouldReconnect(wasClean) == reconnect /\ ~wasClean

\* Mutant of HandleClose: losing the transport empties the registry.
HandleCloseClearsRegistry(h, wasClean) ==
  /\ \/ phase[h] \in {"open", "closing"}
     \/ phase[h] = "errored" /\ ~wasClean
  /\ phase' = [phase EXCEPT ![h] = "closed"]
  /\ isConnecting' = FALSE
  /\ runningIntervals' = StopPingInterval
  /\ pingInterval' = 0
  /\ subscriptions' = <<>>
  /\ IF ShouldReconnect(wasClean)
       THEN LET r == ScheduleReconnect(h) IN
            /\ reconnectAttempts' = r.attempts
            /\ reconnectTimeout' = r.timeout
            /\ pendingTimers' = r.pending
            /\ delay' = r.delay
            /\ maxReports' = IF r.errs # <<>> /\ maxReports < 2
                               THEN maxReports + 1 ELSE maxReports
            /\ last' = [NoOutput("close") EXCEPT !.h = h, !.clean = wasClean,
                          !.errs = r.errs]
       ELSE /\ UNCHANGED <<timerVars, maxReports>>
            /\ last' = [NoOutput("close") EXCEPT !.h = h, !.clean = wasClean]
  /\ UNCHANGED <<ws, promise, byTimer, optVars, closures, unsubscribed,
                 errorHandler, disconnected>>

\* ws.onclose
HandleClose(h, wasClean) ==
  /\ \/ phase[h] \in {"open", "closing"}
     \/ phase[h] = "errored" /\ ~wasClean
  /\ phase' = [phase EXCEPT ![h] = "closed"]
  /\ isConnecting' = FALSE
  /\ runningIntervals' = StopPingInterval
  /\ pingInterval' = 0
  /\ IF ShouldReconnect(wasClean)
       THEN LET r == ScheduleReconnect(h) IN
            /\ reconnectAttempts' = r.attempts
            /\ reconnectTimeout' = r.timeout
            /\ pendingTimers' = r.pending
            /\ delay' = r.delay
            /\ maxReports' = IF r.errs # <<>> /\ maxReports < 2
                               THEN maxReports + 1 ELSE maxReports
            /\ last' = [NoOutput("close") EXCEPT !.h = h, !.clean = wasClean,
                          !.errs = r.errs]
       ELSE /\ UNCHANGED <<timerVars, maxReports>>
            /\ last' = [NoOutput("close") EXCEPT !.h = h, !.clean = wasClean]
  /\ UNCHANGED <<ws, promise, byTimer, optVars, subVars, errorHandler, disconnected>>

\* ws.close(1000, 'Client disconnect') on handle w.
CloseHandle(ph, w) ==
  IF w = NoHandle THEN ph
  ELSE [ph EXCEPT ![w] = CASE @ = "connecting" -> "closingC"
                           [] @ = "open" -> "closing"
                           [] OTHER -> @]

Disconnect ==
  /\ reconnect' = FALSE
  /\ runningIntervals' = StopPingInterval
  /\ pingInterval' = 0
  /\ pendingTimers' = IF reconnectTimeout # 0
                        THEN pendingTimers \ {reconnectTimeout} ELSE pendingTimers
  /\ reconnectTimeout' = 0
  /\ phase' = CloseHandle(phase, ws)
  /\ ws' = NoHandle
  /\ subscriptions' = <<>>
  /\ disconnected' = TRUE
  /\ last' = NoOutput("disconnect")
  /\ UNCHANGED <<promise, byTimer, isConnecting, reconnectAttempts, delay,
                 maxReconnectAttempts, errorHandler, closures, unsubscribed,
                 maxReports>>

OnError ==
  /\ ~errorHandler
  /\ errorHandler' = TRUE
  /\ last' = NoOutput("onError")
  /\ UNCHANGED <<connVars, optVars, timerVars, pingVars, subVars, disconnected,
                 maxReports>>

\* ------------------------------------------------- subscribe / unsubscribe

\* subscribe(channel, symbol, handler); the handler of the n-th call is n.
Subscribe(channel, symbol, maxSubs) ==
  /\ Len(closures) < maxSubs
  /\ LET key == Key(channel, symbol)
         sid == Len(closures) + 1 IN
     /\ subscriptions' = MapSet(subscriptions, key,
                                [key |-> key, channel |-> channel,
                                 symbol |-> symbol, handler |-> sid])
     /\ closures' = Append(closures, [key |-> key, channel |-> channel,
                                      symbol |-> symbol])
     /\ last' = [NoOutput("subscribe") EXCEPT !.arg = sid,
                   !.sent = Send(ws, phase, SubscribeMsg(channel, symbol))]
  /\ UNCHANGED <<connVars, optVars, timerVars, pingVars, errorHandler,
                 disconnected, unsubscribed, maxReports>>

\* The closure returned by the sid-th subscribe() call.
Unsubscribe(sid) ==
  /\ sid \in 1..Len(closures)
  /\ subscriptions' = MapDelete(subscriptions, closures[sid].key)
  /\ unsubscribed' = unsubscribed \cup {sid}
  /\ last' = [NoOutput("unsubscribe") EXCEPT !.arg = sid,
                !.sent = Send(ws, phase, UnsubscribeMsg(closures[sid].channel,
                                                        closures[sid].symbol))]
  /\ UNCHANGED <<connVars, optVars, timerVars, pingVars, errorHandler,
                 disconnected, closures, maxReports>>

\* ---------------------------------------------------------- message router

\* The routing key handleMessage derives from a decoded data frame.
RoutingKey(f) ==
  IF "symbol" \in DOMAIN f.data
    THEN f.channel \o ":" \o f.data.symbol
    ELSE f.channel

\* Mutant of Lookup: the entry is matched by channel alone.
LookupByChannel(m, f) ==
  IF \E i \in 1..Len(m) : m[i].channel = f.channel
    THEN <<m[CHOOSE i \in 1..Len(m) : m[i].channel = f.channel]>>
    ELSE <<>>

\* Mutant of Lookup: the bare channel is not tried.
LookupNoFallback(m, f) ==
  IF MapHas(m, RoutingKey(f)) THEN <<MapGet(m, RoutingKey(f))>> ELSE <<>>

\* Mutant of Lookup: a frame that matches nothing goes to the first entry.
LookupFallsBackToFirst(m, f) ==
  IF MapHas(m, RoutingKey(f)) THEN <<MapGet(m, RoutingKey(f))>>
  ELSE IF MapHas(m, f.channel) THEN <<MapGet(m, f.channel)>>
  ELSE IF m # <<>> THEN <<m[1]>>
  ELSE <<>>

\* this.subscriptions.get(key) || this.subscriptions.get(message.channel)
Lookup(m, f) ==
  IF MapHas(m, RoutingKey(f)) THEN <<MapGet(m, RoutingKey(f))>>
  ELSE IF MapHas(m, f.channel) THEN <<MapGet(m, f.channel)>>
  ELSE <<>>

\* Mutant of Dispatch: the callback is handed the whole envelope.
DispatchEnvelope(m, f) ==
  [i \in 1..Len(Lookup(m, f)) |->
     [handler |-> Lookup(m, f)[i].handler, key |-> Lookup(m, f)[i].key,
      arg |-> f]]

\* subscription.handler(message.data), for the entry found (if any).
Dispatch(m, f) ==
  [i \in 1..Len(Lookup(m, f)) |->
     [handler |-> Lookup(m, f)[i].handler, key |-> Lookup(m, f)[i].key,
      arg |-> f.data]]

\* Mutant of HandleMessage: a frame that does not parse is dropped without a
\* report.
HandleMessageSilentParse(f, throws) ==
  /\ \E h \in Handles : phase[h] \in {"open", "closing"}
  /\ throws => f.kind = "data" /\ Dispatch(subscriptions, f) # <<>>
  /\ last' =
       CASE f.kind = "malformed" -> [NoOutput("message") EXCEPT !.arg = f]
         [] f.kind = "pong" -> [NoOutput("message") EXCEPT !.arg = f]
         [] OTHER ->
              [NoOutput("message") EXCEPT !.arg = f,
                 !.calls = Dispatch(subscriptions, f),
                 !.threw = throws,
                 !.errs = IF throws THEN Report("callback error") ELSE <<>>]
  /\ UNCHANGED <<connVars, optVars, timerVars, pingVars, subVars, errorHandler,
                 disconnected, maxReports>>

\* Mutant of HandleMessage: what a callback throws is not handed to the
\* error handler.
HandleMessageUncaughtThrow(f, throws) ==
  /\ \E h \in Handles : phase[h] \in {"open", "closing"}
  /\ throws => f.kind = "data" /\ Dispatch(subscriptions, f) # <<>>
  /\ last' =
       CASE f.kind = "malformed" ->
              [NoOutput("message") EXCEPT !.arg = f,
                 !.errs = Report("SyntaxError")]
         [] f.kind = "pong" -> [NoOutput("message") EXCEPT !.arg = f]
         [] OTHER ->
              [NoOutput("message") EXCEPT !.arg = f,
                 !.calls = Dispatch(subscriptions, f),
                 !.threw = throws]
  /\ UNCHANGED <<connVars, optVars, timerVars, pingVars, subVars, errorHandler,
                 disconnected, maxReports>>

\* ws.onmessage -> handleMessage(event.data), for a frame that arrives on any
\* handle that can still receive; throws: the callback that is called throws.
HandleMessage(f, throws) ==
  /\ \E h \in Handles : phase[h] \in {"open", "closing"}
  /\ throws => f.kind = "data" /\ Dispatch(subscriptions, f) # <<>>
  /\ last' =
       CASE f.kind = "malformed" ->
              [NoOutput("message") EXCEPT !.arg = f,
                 !.errs = Report("SyntaxError")]
         [] f.kind = "pong" -> [NoOutput("message") EXCEPT !.arg = f]
         [] OTHER ->
              [NoOutput("message") EXCEPT !.arg = f,
                 !.calls = Dispatch(subscriptions, f),
                 !.threw = throws,
                 !.errs = IF throws THEN Report("callback error") ELSE <<>>]
  /\ UNCHANGED <<connVars, optVars, timerVars, pingVars, subVars, errorHandler,
                 disconnected, maxReports>>

\* The setInterval callback of startPingInterval.
PingTick(i) ==
  /\ i \in runningIntervals
  /\ last' = [NoOutput("ping") EXCEPT !.h = i, !.sent = Send(ws, phase, PingMsg)]
  /\ UNCHANGED <<connVars, optVars, timerVars, pingVars, subVars, errorHandler,
                 disconnected, maxReports>>

\* ------------------------------------------------------------------- Init

Init ==
  /\ ws = NoHandle
  /\ phase = [h \in Handles |-> "unused"]
  /\ promise = [h \in Handles |-> "none"]
  /\ byTimer = [h \in Handles |-> FALSE]
  /\ isConnecting = FALSE
  /\ reconnect \in BOOLEAN
  /\ maxReconnectAttempts \in 0..MaxReconnectAttempts
  /\ maxReports = 0
  /\ reconnectAttempts = 0
  /\ reconnectTimeout = 0
  /\ pendingTimers = {}
  /\ delay = <<0, 1>>
  /\ pingInterval = 0
  /\ runningIntervals = {}
  /\ subscriptions = <<>>
  /\ errorHandler = FALSE
  /\ closures = <<>>
  /\ disconnected = FALSE
  /\ unsubscribed = {}
  /\ last = NoOutput("init")

\* The connection manager alone: the registry stays empty.
Next ==
  \/ Connect(MaxHandles)
  \/ \E t \in Handles : TimerFire(t, MaxHandles)
  \/ \E h \in Handles : HandleOpen(h)
  \/ \E h \in Handles : HandleError(h)
  \/ \E h \in Handles, wasClean \in BOOLEAN : HandleClose(h, wasClean)
  \/ \E i \in Handles : PingTick(i)
  \/ Disconnect
  \/ OnError

Spec == Init /\ [][Next]_vars

\* The registry and the router, for a client constructed with
\* {reconnect: false}: no reconnect timer is ever started, and the caller
\* reconnects by hand.
InitSubs == Init /\ ~reconnect /\ maxReconnectAttempts = MaxReconnectAttempts

NextSubs ==
  \/ Connect(SubHandles)
  \/ \E h \in Handles : HandleOpen(h)
  \/ \E h \in Handles : HandleError(h)
  \/ \E h \in Handles, wasClean \in BOOLEAN : HandleClose(h, wasClean)
  \/ \E i \in Handles : PingTick(i)
  \/ Disconnect
  \/ OnError
  \/ \E c \in SubscribeCalls : Subscribe(c[1], c[2], MaxSubs)
  \/ \E sid \in 1..MaxSubs : Unsubscribe(sid)
  \/ \E f \in Frames, throws \in BOOLEAN : HandleMessage(f, throws)

SpecSubs == InitSubs /\ [][NextSubs]_vars

\* The client left alone: the caller acts only until a transport is first
\* lost; from then on only the transport and the timers move.
Attended == \A h \in Handles : phase[h] \notin {"errored", "closed"}

NextAuto ==
  \/ Attended /\ Connect(AutoHandles)
  \/ Attended /\ Disconnect
  \/ Attended /\ OnError
  \/ Attended /\ \E c \in SubscribeCalls : Subscribe(c[1], c[2], AutoSubs)
  \/ Attended /\ \E sid \in 1..AutoSubs : Unsubscribe(sid)
  \/ \E t \in Handles : TimerFire(t, AutoHandles)
  \/ \E h \in Handles : HandleOpen(h)
  \/ \E h \in Handles : HandleError(h)
  \/ \E h \in Handles, wasClean \in BOOLEAN : HandleClose(h, wasClean)

\* The event loop runs a timer that is due.
SpecAuto ==
  Init /\ [][NextAuto]_vars /\ WF_vars(\E t \in Handles : TimerFire(t, AutoHandles))

\* The registry over several transports, for a client constructed with
\* {reconnect: false} whose caller reconnects by hand: no frames, no pings.
NextReplay ==
  \/ Connect(MaxHandles)
  \/ \E h \in Handles : HandleOpen(h)
  \/ \E h \in Handles : HandleError(h)
  \/ \E h \in Handles, wasClean \in BOOLEAN : HandleClose(h, wasClean)
  \/ Disconnect
  \/ \E c \in SubscribeCalls : Subscribe(c[1], c[2], AutoSubs)
  \/ \E sid \in 1..AutoSubs : Unsubscribe(sid)

SpecReplay == InitSubs /\ [][NextReplay]_vars

\* Every handler of the client together, for a client constructed with
\* reconnection on, on few handles, with one market subscribed and one frame
\* of each kind.
InitAll == Init /\ reconnect /\ maxReconnectAttempts = MaxReconnectAttempts

AllFrames ==
  {f \in Frames : f.kind = "data" =>
                    /\ f.channel = "orderbook"
                    /\ f.data = [symbol |-> "BTC-USDT", price |-> "50000"]}

NextAll ==
  \/ Connect(AutoHandles)
  \/ \E t \in Handles : TimerFire(t, AutoHandles)
  \/ \E h \in Handles : HandleOpen(h)
  \/ \E h \in Handles : HandleError(h)
  \/ \E h \in Handles, wasClean \in BOOLEAN : HandleClose(h, wasClean)
  \/ \E i \in Handles : PingTick(i)
  \/ Disconnect
  \/ OnError
  \/ Subscribe("orderbook", "BTC-USDT", AutoSubs)
  \/ \E sid \in 1..AutoSubs : Unsubscribe(sid)
  \/ \E f \in AllFrames, throws \in BOOLEAN : HandleMessage(f, throws)

SpecAll == InitAll /\ [][NextAll]_vars

\* ================================================================== claims

\* The client's own fields and the timers it has started: everything but the
\* transport handles' promises, the history variables and the step record.
clientVars == <<ws, phase, isConnecting, optVars, timerVars, pingVars,
                subscriptions, errorHandler>>

LiveHandles == {h \in Handles : phase[h] \in {"connecting", "open"}}

\* C1: a connect() made while the current transport is open or connecting is
\* a no-op: it creates no handle and changes no client state.
C1_IdempotentConnect ==
  [][(last'.op = "connect" /\ ReadyState(ws, phase) \in {"OPEN", "CONNECTING"})
       => (last'.created = NoHandle /\ UNCHANGED clientVars)]_vars

\* C2: at most one handle created by the client is connecting or open.
C2_OneLiveHandle == Cardinality(LiveHandles) <= 1

\* C3: after the open transport is lost non-cleanly (reconnect enabled, cap
\* not reached) a reconnect timer is scheduled; left alone, a timer that is
\* pending fires a connection attempt; and when a reconnection attempt opens,
\* a subscribe message is sent on it for every registry entry.
C3_Scheduled ==
  [][(/\ last'.op = "close" /\ ~last'.clean
      /\ last'.h = ws /\ promise[last'.h] = "resolved"
      /\ reconnect /\ reconnectAttempts < maxReconnectAttempts)
       => last'.h \in pendingTimers']_vars

C3_Attempted ==
  \A t \in Handles :
    (t \in pendingTimers)
      ~> (\/ last.op = "timer" /\ last.h = t /\ last.created # NoHandle
          \/ NextHandle > AutoHandles)

C3_Replayed ==
  [](last.op = "open" /\ byTimer[last.h]
       => \A i \in 1..Len(subscriptions) :
            \E j \in 1..Len(last.sent) :
              last.sent[j] =
                [to |-> last.h,
                 data |-> [action |-> "subscribe",
                           channel |-> subscriptions[i].channel,
                           symbol |-> subscriptions[i].symbol]])

C4_NoReconnectAfterDisconnect ==
  [][(disconnected /\ last'.op = "close" /\ ~last'.clean)
       => UNCHANGED timerVars]_vars

C4_Witness ==
  /\ disconnected /\ last.op = "close" /\ ~last.clean
  /\ last.h # ws /\ promise[last.h] = "resolved"

\* C5: after disconnect() no reconnect timer creates a transport handle.
C5_DisconnectCancelsTimers ==
  disconnected => ~(last.op = "timer" /\ last.created # NoHandle)

\* C6: a non-clean close event, with reconnect enabled and the counter below
\* the cap, schedules exactly one timer and adds one to the counter; a clean
\* close event schedules none.
C6_OneAttemptPerClose ==
  [][last'.op = "close" =>
       IF reconnect /\ ~last'.clean /\ reconnectAttempts < maxReconnectAttempts
         THEN /\ reconnectAttempts' = reconnectAttempts + 1
              /\ Cardinality(pendingTimers') = Cardinality(pendingTimers) + 1
         ELSE last'.clean => /\ pendingTimers' = pendingTimers
                             /\ reconnectAttempts' = reconnectAttempts]_vars

C6_Witness ==
  /\ last.op = "close" /\ ~last.clean
  /\ last.h \in pendingTimers /\ reconnectTimeout = last.h
  /\ reconnectAttempts = 1

\* C7: the n-th timer scheduled since the counter was zero has the delay
\* reconnectInterval * 1.5^(n-1), and it is longer than the one before it.
C7_BackoffGrowth ==
  [][(last'.op = "close" /\ reconnectAttempts' = reconnectAttempts + 1) =>
       /\ delay'[1] * Pow(2, reconnectAttempts' - 1)
            = ReconnectInterval * Pow(3, reconnectAttempts' - 1) * delay'[2]
       /\ reconnectAttempts >= 1 => RatLess(delay, delay')]_vars

C7_Witness ==
  /\ last.op = "close" /\ last.h \in pendingTimers
  /\ reconnectAttempts = 2 /\ delay = <<15000, 2>>

\* C8: between two caller connect() calls (or transport openings) the
\* exhausted-retries error reaches the error handler at most once.
C8_MaxErrorOnce == maxReports <= 1

\* C9: a data frame on orderbook with data.symbol = s reaches only a callback
\* that was registered by subscribe(orderbook, s, cb), and it reaches the one
\* in the registry for that channel and symbol, once.
C9_Routing ==
  (/\ last.op = "message" /\ last.arg.kind = "data"
   /\ last.arg.channel = "orderbook" /\ "symbol" \in DOMAIN last.arg.data)
    => /\ \A i \in 1..Len(last.calls) :
            /\ closures[last.calls[i].handler].channel = last.arg.channel
            /\ closures[last.calls[i].handler].symbol = last.arg.data.symbol
       /\ \A i \in 1..Len(subscriptions) :
            (/\ subscriptions[i].channel = last.arg.channel
             /\ subscriptions[i].symbol = last.arg.data.symbol)
              => /\ Len(last.calls) = 1
                 /\ last.calls[1].handler = subscriptions[i].handler

C9_Witness ==
  /\ last.op = "message" /\ last.arg.kind = "data"
  /\ last.arg.channel = "orderbook" /\ "symbol" \in DOMAIN last.arg.data
  /\ last.arg.data.symbol = "BTC-USDT"
  /\ Len(last.calls) = 1
  /\ \E i \in 1..Len(subscriptions) : subscriptions[i].key = "orderbook:ETH-USDT"

\* C10: a callback whose unsubscribe closure has been invoked is never called
\* again, and the closure sends exactly one wire unsubscribe with its channel
\* and symbol if the transport is open, none otherwise.
C10_UnsubscribeStops ==
  /\ \A i \in 1..Len(last.calls) : last.calls[i].handler \notin unsubscribed
  /\ last.op = "unsubscribe" =>
       last.sent =
         IF ws # NoHandle /\ phase[ws] = "open"
           THEN <<[to |-> ws,
                   data |-> [action |-> "unsubscribe",
                             channel |-> closures[last.arg].channel,
                             symbol |-> closures[last.arg].symbol]]>>
           ELSE <<>>

C10_Witness ==
  /\ last.op = "message" /\ last.arg.kind = "data"
  /\ last.calls = <<>>
  /\ \E sid \in unsubscribed :
       /\ closures[sid].channel = last.arg.channel
       /\ "symbol" \in DOMAIN last.arg.data
       /\ closures[sid].symbol = last.arg.data.symbol
  /\ ws # NoHandle /\ phase[ws] = "open"

\* C11: invoking an unsubscribe closure that has been invoked before changes
\* nothing: the registry is unchanged and no wire message is sent.
C11_RepeatedUnsubscribeNoop ==
  [][(last'.op = "unsubscribe" /\ last'.arg \in unsubscribed)
       => (last'.sent = <<>> /\ UNCHANGED subscriptions)]_vars

\* C12: a well-formed data frame whose channel:symbol key and whose bare
\* channel are both absent from the registry calls no callback, reports no
\* error and changes no client state.
C12_UnmatchedDropped ==
  [][(/\ last'.op = "message" /\ last'.arg.kind = "data"
      /\ \A i \in 1..Len(subscriptions) :
           /\ subscriptions[i].key # last'.arg.channel
           /\ "symbol" \in DOMAIN last'.arg.data
                => subscriptions[i].key
                     # last'.arg.channel \o ":" \o last'.arg.data.symbol)
       => (last'.calls = <<>> /\ last'.errs = <<>> /\ UNCHANGED clientVars)]_vars

C12_Witness ==
  /\ last.op = "message" /\ last.arg.kind = "data"
  /\ last.arg.channel = "orderbook" /\ "symbol" \in DOMAIN last.arg.data
  /\ last.arg.data.symbol = "BTC-USDT"
  /\ Len(subscriptions) = 1 /\ subscriptions[1].key = "orderbook:ETH-USDT"
  /\ errorHandler
  /\ last.calls = <<>> /\ last.errs = <<>>

\* C13: a data frame that matches a registry entry (by channel:symbol, or
\* else by bare channel) calls that entry's callback exactly once, and the
\* argument is the frame's data field, not the envelope.
C13_PayloadOnce ==
  (last.op = "message" /\ last.arg.kind = "data") =>
    \A i \in 1..Len(subscriptions) :
      (\/ /\ "symbol" \in DOMAIN last.arg.data
          /\ subscriptions[i].key
               = last.arg.channel \o ":" \o last.arg.data.symbol
       \/ /\ subscriptions[i].key = last.arg.channel
          /\ ~ /\ "symbol" \in DOMAIN last.arg.data
               /\ \E j \in 1..Len(subscriptions) :
                    subscriptions[j].key
                      = last.arg.channel \o ":" \o last.arg.data.symbol)
        => /\ Len(last.calls) = 1
           /\ last.calls[1].handler = subscriptions[i].handler
           /\ last.calls[1].arg = last.arg.data
           /\ last.calls[1].arg # last.arg

C13_Witness ==
  /\ last.op = "message" /\ last.arg.kind = "data"
  /\ last.arg.channel = "orderbook" /\ "symbol" \in DOMAIN last.arg.data
  /\ Len(last.calls) = 1
  /\ last.calls[1].arg = [symbol |-> "BTC-USDT", price |-> "50000"]
  /\ MapHas(subscriptions, "orderbook:BTC-USDT")
  /\ last.calls[1].handler = MapGet(subscriptions, "orderbook:BTC-USDT").handler

\* C14: when a transport opens, exactly one wire subscribe is sent on it for
\* every registry entry, with the entry's channel and symbol, and nothing
\* else is sent.
C14_ReplayOnOpen ==
  last.op = "open" =>
    /\ \A i \in 1..Len(subscriptions) :
         Cardinality({j \in 1..Len(last.sent) :
                        last.sent[j] =
                          [to |-> last.h,
                           data |-> [action |-> "subscribe",
                                     channel |-> subscriptions[i].channel,
                                     symbol |-> subscriptions[i].symbol]]}) = 1
    /\ Len(last.sent) = Len(subscriptions)

\* C15: subscribe() stores its entry (key, channel, symbol, callback) in the
\* registry; it sends one wire subscribe on the current transport if that is
\* open and nothing otherwise; and a wire subscribe leaves the client only in
\* subscribe() or in the replay of a transport opening.
C15_SubscribeStoresAndSends ==
  /\ last.op = "subscribe" =>
       /\ MapHas(subscriptions, closures[last.arg].key)
       /\ MapGet(subscriptions, closures[last.arg].key) =
            [key |-> closures[last.arg].key,
             channel |-> closures[last.arg].channel,
             symbol |-> closures[last.arg].symbol,
             handler |-> last.arg]
       /\ last.sent =
            IF ws # NoHandle /\ phase[ws] = "open"
              THEN <<[to |-> ws,
                      data |-> [action |-> "subscribe",
                                channel |-> closures[last.arg].channel,
                                symbol |-> closures[last.arg].symbol]]>>
              ELSE <<>>
  /\ \A j \in 1..Len(last.sent) :
       ("action" \in DOMAIN last.sent[j].data
          /\ last.sent[j].data.action = "subscribe")
         => last.op \in {"subscribe", "open"}

C15_Witness ==
  /\ last.op = "subscribe" /\ last.arg = 2
  /\ ws # NoHandle /\ phase[ws] = "open"
  /\ Len(last.sent) = 1 /\ last.sent[1].data.symbol = "ETH-USDT"
  /\ Len(subscriptions) = 2

\* C16: the registry has at most one entry per key, and a callback that is
\* called is the one of the latest subscribe() for its key: no later
\* subscribe() call has the same key.
C16_LastWriteWins ==
  /\ \A i, j \in 1..Len(subscriptions) :
       subscriptions[i].key = subscriptions[j].key => i = j
  /\ \A i \in 1..Len(last.calls) :
       \A sid \in 1..Len(closures) :
         closures[sid].key = closures[last.calls[i].handler].key
           => sid <= last.calls[i].handler

C16_Witness ==
  /\ last.op = "message" /\ Len(last.calls) = 1
  /\ last.calls[1].handler = 2
  /\ closures[1].key = closures[2].key
  /\ Len(subscriptions) = 1

\* C17: only subscribe(), an unsubscribe closure and disconnect() change the
\* registry: transport open, error and close events (with the reconnect
\* scheduling in them), reconnect timers, ping ticks, inbound frames,
\* connect() and onError() leave it as it is.
C17_RegistryFrame ==
  [][subscriptions' # subscriptions
       => last'.op \in {"subscribe", "unsubscribe", "disconnect"}]_vars

C17_Witness ==
  /\ last.op = "open" /\ byTimer[last.h]
  /\ Len(subscriptions) = 1 /\ Len(last.sent) = 1
  /\ \E h \in Handles : phase[h] = "closed" /\ promise[h] = "resolved"

\* C18: invoking the closure of an earlier subscribe() whose key now holds
\* the callback of a later subscribe() leaves that later entry in the
\* registry and sends no wire unsubscribe.
C18_OwnClosureOnly ==
  [][(/\ last'.op = "unsubscribe"
      /\ MapHas(subscriptions, closures[last'.arg].key)
      /\ MapGet(subscriptions, closures[last'.arg].key).handler # last'.arg)
       => (UNCHANGED subscriptions /\ last'.sent = <<>>)]_vars

\* C19: when disconnect() returns, reconnection is off, no ping interval is
\* running, no reconnect timer is pending, the client has no transport
\* handle and the registry is empty.
C19_DisconnectLeavesNothing ==
  last.op = "disconnect" =>
    /\ ~reconnect
    /\ runningIntervals = {}
    /\ pendingTimers = {}
    /\ ws = NoHandle
    /\ subscriptions = <<>>

\* C20: the promise of a connect() that created a handle is settled by that
\* handle's open event (resolved) or by its error event before opening
\* (rejected), by nothing else, and once settled it never changes: an error
\* or a close after the opening does not reject it.
C20_PromiseSettlesOnce ==
  [][\A h \in Handles :
       /\ promise[h] \in {"resolved", "rejected"} => promise'[h] = promise[h]
       /\ (promise[h] = "pending" /\ last'.h = h /\ last'.op = "open")
            => promise'[h] = "resolved"
       /\ (promise[h] = "pending" /\ last'.h = h /\ last'.op = "error")
            => promise'[h] = "rejected"
       /\ (promise[h] = "pending" /\ promise'[h] # "pending")
            => (last'.h = h /\ last'.op \in {"open", "error"})]_vars

C20_Witness ==
  /\ last.op = "error" /\ promise[last.h] = "resolved"
  /\ \E g \in Handles : promise[g] = "rejected" /\ phase[g] = "closed"

\* C21: a frame that JSON.parse rejects is reported to the error handler once
\* if one is registered and to nobody otherwise, calls no subscription
\* callback and changes no client state.
C21_MalformedReported ==
  [][(last'.op = "message" /\ last'.arg.kind = "malformed")
       => /\ last'.calls = <<>>
          /\ Len(last'.errs) = (IF errorHandler THEN 1 ELSE 0)
          /\ UNCHANGED clientVars]_vars

C21_Witness ==
  /\ last.op = "message" /\ last.arg.kind = "malformed"
  /\ errorHandler /\ Len(last.errs) = 1
  /\ Len(subscriptions) = 1
  /\ ws # NoHandle /\ phase[ws] = "open"

\* C22: whenever the client's current transport is open, the ping interval
\* the client holds is running.
C22_PingWhileOpen ==
  (ws # NoHandle /\ phase[ws] = "open")
    => (pingInterval # 0 /\ pingInterval \in runningIntervals)

\* C23: every transport opening sets the reconnect counter to zero and no
\* other step lowers it; and once the exhausted-retries error has been
\* reported, the next transport that opens is one made by a connect() of the
\* caller, not by a reconnect timer.
C23_ResetOnlyOnOpen ==
  [][/\ last'.op = "open" => reconnectAttempts' = 0
     /\ reconnectAttempts' < reconnectAttempts => last'.op = "open"]_vars

C23_TerminalUntilManual ==
  [][(last'.op = "open" /\ maxReports >= 1) => ~byTimer[last'.h]]_vars

C23_CounterReset == C23_ResetOnlyOnOpen /\ C23_TerminalUntilManual

\* C24: a reconnect timer is created only by a non-clean close event, and it
\* is the timer of the handle that closed; a transport error event, with the
\* rejection of the attempt's promise, leaves timers and counter alone.
C24_TimersOnlyFromClose ==
  [][/\ pendingTimers' \ pendingTimers # {}
          => /\ last'.op = "close" /\ ~last'.clean
             /\ pendingTimers' \ pendingTimers = {last'.h}
     /\ last'.op = "error" => UNCHANGED timerVars]_vars

C24_Witness ==
  /\ last.op = "error" /\ byTimer[last.h] /\ promise[last.h] = "rejected"
  /\ reconnect /\ reconnectAttempts < maxReconnectAttempts
  /\ pendingTimers = {}

\* C25: a data frame on user.orders reaches the callback registered by
\* userOrders(cb), once and with the frame's data, whether or not the data
\* has a symbol field.
C25_UserChannelFallback ==
  (/\ last.op = "message" /\ last.arg.kind = "data"
   /\ last.arg.channel = "user.orders"
   /\ \E i \in 1..Len(subscriptions) : subscriptions[i].key = "user.orders")
    => /\ Len(last.calls) = 1
       /\ closures[last.calls[1].handler].channel = "user.orders"
       /\ closures[last.calls[1].handler].symbol = Undefined
       /\ \E i \in 1..Len(subscriptions) :
            /\ subscriptions[i].key = "user.orders"
            /\ subscriptions[i].handler = last.calls[1].handler
       /\ last.calls[1].arg = last.arg.data

C25_Witness ==
  /\ last.op = "message" /\ last.arg.kind = "data"
  /\ last.arg.channel = "user.orders"
  /\ "symbol" \in DOMAIN last.arg.data
  /\ Len(last.calls) = 1 /\ last.calls[1].key = "user.orders"
  /\ Len(subscriptions) = 2

\* C26: when the callback a frame is dispatched to throws, the error is
\* handed to the error handler once if one is registered and to nobody
\* otherwise, no client state changes, and the same frame arriving next is
\* dispatched to the same callback again.
C26_CallbackThrowCaught ==
  [][/\ (last'.op = "message" /\ last'.threw)
          => /\ Len(last'.calls) = 1
             /\ Len(last'.errs) = (IF errorHandler THEN 1 ELSE 0)
             /\ UNCHANGED clientVars
     /\ (/\ last.op = "message" /\ last.threw
         /\ last'.op = "message" /\ last'.arg = last.arg)
          => last'.calls = last.calls]_vars

C26_Witness ==
  /\ last.op = "message" /\ last.threw
  /\ errorHandler /\ last.errs = <<"callback error">>
  /\ Len(last.calls) = 1
  /\ ws # NoHandle /\ phase[ws] = "open"

\* The last step resolved a promise that connect() returned to the caller:
\* the early return of the async function (the call was a no-op), or
\* resolve() in onopen.
ConnectResolved ==
  \/ last.op = "connect" /\ last.created = NoHandle
  \/ last.op = "open"

\* C27: when a promise returned by connect() resolves, the client's current
\* transport is open.
C27_ResolvedMeansOpen ==
  ConnectResolved => (ws # NoHandle /\ phase[ws] = "open")

\* C28: a transport error event, with the rejection it causes, reaches the
\* error handler at most once, and exactly once if a handler is registered.
C28_FailureReportedOnce ==
  last.op = "error" => Len(last.errs) = (IF errorHandler THEN 1 ELSE 0)

\* C29: at most one reconnect timer is pending and at most one ping interval
\* is running, and each is the one the client's field refers to.
C29_NoLeakedTimers ==
  /\ Cardinality(pendingTimers) <= 1
  /\ \A t \in pendingTimers : t = reconnectTimeout
  /\ Cardinality(runningIntervals) <= 1
  /\ \A i \in runningIntervals : i = pingInterval

\* C30: once disconnect() has been called the reconnect option stays off,
\* and a close event, also that of a transport opened by a later connect(),
\* has scheduled no reconnect timer.
C30_StaysDisabled ==
  disconnected =>
    /\ ~reconnect
    /\ last.op = "close" => last.h \notin pendingTimers

C30_Witness ==
  /\ disconnected /\ last.op = "close" /\ ~last.clean
  /\ ws = last.h /\ ~byTimer[last.h] /\ promise[last.h] = "resolved"
  /\ pendingTimers = {}

====
